---- MODULE Spec2Model ----
(***************************************************************************)
(* Differentiability witness resolution                                    *)
(* (lib/SILOptimizer/Utils/Differentiation/DerivativeLookup.cpp).          *)
(*                                                                         *)
(* The module under compilation holds two functions: "f", whose            *)
(* declaration, linkage and `@differentiable` attributes are drawn from    *)
(* bounded sets, and "g", a fixed external declaration with one attribute. *)
(* The witness registry of the module is a per-function list in            *)
(* registration order; a witness is identified by <<function, position>>.  *)
(***************************************************************************)
EXTENDS Integers, Sequences, FiniteSets, TLC

\* ------------------------------------------------------------- bounds
MaxArity == 2            \* largest number of lowered parameters of "f"
MaxAttrs == 2            \* largest number of attributes on "f"
MaxResultCapacity == 2   \* largest capacity of a requested result index set
NumPasses == 2           \* passes that run concurrently over the module

Functions == {"f", "g"}
GenericSignatures == <<"sigA", "sigB", "sigC">>

\* ------------------------------------------------------------- IndexSubset
\* An IndexSubset is a bit vector: a sequence of BOOLEAN whose length is the
\* capacity; index i (counted from 0) is a member iff bit i + 1 is set.
\* IndexSubsets are uniqued, so pointer equality is equality of bit vectors.
nullptr == << >>

IndexSubsets(c) == [1..c -> BOOLEAN]

IndexSubsetsUpTo(n) == UNION {IndexSubsets(c) : c \in 1..n}

getCapacity(s) == Len(s)

getIndices(s) == {i \in 0..(Len(s) - 1) : s[i + 1]}

getNumIndices(s) == Cardinality(getIndices(s))

contains(s, i) == i < Len(s) /\ s[i + 1]

\* Defined for subsets of equal capacity only.
isSupersetOf(a, b) == \A i \in 1..Len(a) : b[i] => a[i]

\* Zero-pads `s` to `newCapacity`; defined for newCapacity >= capacity only.
extendingCapacity(s, newCapacity) ==
    [i \in 1..newCapacity |-> IF i <= Len(s) THEN s[i] ELSE FALSE]

\* ------------------------------------------------------------- state
VARIABLES
    funcs,      \* function name -> [declContext, isExternalDeclaration, attrs]
    registry,   \* function name -> sequence of witnesses, in registration order
    last,       \* the call in progress in the single-threaded pass, and its outcome
    passes      \* concurrent passes: where each is in its get-or-create call

vars == <<funcs, registry, last, passes>>

\* ------------------------------------------------------------- declarations
\* What F->getDeclContext() leads to.
DeclContexts == {"none", "notADecl", "otherDecl", "function"}

\* The AbstractFunctionDecl of F (here: its name), or nullptr.
findAbstractFunctionDecl(fs, F) ==
    IF fs[F].declContext = "none" THEN nullptr
    ELSE IF fs[F].declContext = "notADecl" THEN nullptr
    ELSE IF fs[F].declContext = "function" THEN <<F>> ELSE nullptr

\* ------------------------------------------------------------- registry
\* The witnesses registered for a function, in registration order.
lookUpDifferentiabilityWitnessesForFunction(module, name) == module[name]

\* A witness pointer: the function and the position in its list.
witnessAt(name, i) == <<name, i>>

AutoDiffConfig(parameterIndices, resultIndices, derivativeGenericSignature) ==
    [parameterIndices |-> parameterIndices,
     resultIndices |-> resultIndices,
     derivativeGenericSignature |-> derivativeGenericSignature]

getConfig(w) ==
    AutoDiffConfig(w.parameterIndices, w.resultIndices, w.derivativeGenericSignature)

\* firstMatch that returns the last of the witnesses at `hits`.
lastMatch(name, hits) ==
    IF hits = {} THEN nullptr
    ELSE witnessAt(name, CHOOSE i \in hits : \A j \in hits : i >= j)

\* The first of the witnesses of `name` at the positions `hits`, or nullptr.
firstMatch(name, hits) ==
    IF hits = {} THEN nullptr
    ELSE witnessAt(name, CHOOSE i \in hits : \A j \in hits : i <= j)

\* Lookup by the key (function name, config): the whole config is the key.
lookUpDifferentiabilityWitness(module, name, config) ==
    firstMatch(name, {i \in 1..Len(module[name]) :
                          getConfig(module[name][i]) = config})

\* getExactDifferentiabilityWitness without the comparison of the result indices.
getExactIgnoringResults(module, original, parameterIndices, resultIndices) ==
    LET ws == lookUpDifferentiabilityWitnessesForFunction(module, original)
    IN firstMatch(original,
                  {i \in 1..Len(ws) : ws[i].parameterIndices = parameterIndices})

getExactDifferentiabilityWitness(module, original, parameterIndices, resultIndices) ==
    LET ws == lookUpDifferentiabilityWitnessesForFunction(module, original)
    IN firstMatch(original,
                  {i \in 1..Len(ws) :
                       /\ ws[i].parameterIndices = parameterIndices
                       /\ ws[i].resultIndices = resultIndices})

\* A new witness is appended to its function's list.
registerWitness(module, name, w) ==
    [module EXCEPT ![name] = Append(@, w)]

\* SILDifferentiabilityWitness::createDeclaration: a witness without a body.
createDeclaration(linkage, config) ==
    [parameterIndices |-> config.parameterIndices,
     resultIndices |-> config.resultIndices,
     derivativeGenericSignature |-> config.derivativeGenericSignature,
     isDeclaration |-> TRUE,
     linkage |-> linkage]

\* ------------------------------------------------------------- minimal attribute
\* isNewCandidate without the comparison of the index counts.
isNewCandidateAnyCover(attrParameterIndices, parameterIndices, minimalParameterIndices) ==
    isSupersetOf(attrParameterIndices,
                 extendingCapacity(parameterIndices,
                                   getCapacity(attrParameterIndices)))

\* isNewCandidate with <= in place of <.
isNewCandidateOrEqual(attrParameterIndices, parameterIndices, minimalParameterIndices) ==
    /\ isSupersetOf(attrParameterIndices,
                    extendingCapacity(parameterIndices,
                                      getCapacity(attrParameterIndices)))
    /\ \/ minimalParameterIndices = nullptr
       \/ getNumIndices(attrParameterIndices) <= getNumIndices(minimalParameterIndices)

\* isNewCandidate without the superset test.
isNewCandidateNoCover(attrParameterIndices, parameterIndices, minimalParameterIndices) ==
    \/ minimalParameterIndices = nullptr
    \/ getNumIndices(attrParameterIndices) < getNumIndices(minimalParameterIndices)

\* isNewCandidate with the request padded with members in place of zeros.
isNewCandidateOnePadded(attrParameterIndices, parameterIndices, minimalParameterIndices) ==
    /\ isSupersetOf(attrParameterIndices,
                    [i \in 1..getCapacity(attrParameterIndices) |->
                        IF i <= getCapacity(parameterIndices)
                        THEN parameterIndices[i] ELSE TRUE])
    /\ \/ minimalParameterIndices = nullptr
       \/ getNumIndices(attrParameterIndices) < getNumIndices(minimalParameterIndices)

\* The test of the loop body: `attr` covers the request and has fewer indices
\* than the current candidate (or there is no candidate yet).
isNewCandidate(attrParameterIndices, parameterIndices, minimalParameterIndices) ==
    /\ isSupersetOf(attrParameterIndices,
                    extendingCapacity(parameterIndices,
                                      getCapacity(attrParameterIndices)))
    /\ \/ minimalParameterIndices = nullptr
       \/ getNumIndices(attrParameterIndices) < getNumIndices(minimalParameterIndices)

\* minimalAttrLoop that sets minimalAttr and leaves minimalParameterIndices.
RECURSIVE minimalAttrLoopKeepsIndices(_, _, _, _)
minimalAttrLoopKeepsIndices(attrs, parameterIndices, i, acc) ==
    IF i > Len(attrs) THEN acc
    ELSE LET attrParameterIndices == attrs[i].parameterIndices
         IN IF getCapacity(attrParameterIndices) < getCapacity(parameterIndices)
            THEN [acc EXCEPT !.defined = FALSE]
            ELSE IF isNewCandidate(attrParameterIndices, parameterIndices,
                                   acc.minimalParameterIndices)
                 THEN minimalAttrLoopKeepsIndices(attrs, parameterIndices, i + 1,
                          [acc EXCEPT !.minimalAttr = i])
                 ELSE minimalAttrLoopKeepsIndices(attrs, parameterIndices, i + 1, acc)

\* The loop over the attributes from position i on. `defined` turns FALSE when
\* extendingCapacity is asked to shrink the request: the code makes that call
\* without a guard, and its outcome is not defined.
RECURSIVE minimalAttrLoop(_, _, _, _)
minimalAttrLoop(attrs, parameterIndices, i, acc) ==
    IF i > Len(attrs) THEN acc
    ELSE LET attrParameterIndices == attrs[i].parameterIndices
         IN IF getCapacity(attrParameterIndices) < getCapacity(parameterIndices)
            THEN [acc EXCEPT !.defined = FALSE]
            ELSE IF isNewCandidate(attrParameterIndices, parameterIndices,
                                   acc.minimalParameterIndices)
                 THEN minimalAttrLoop(attrs, parameterIndices, i + 1,
                          [minimalAttr |-> i,
                           minimalParameterIndices |-> attrParameterIndices,
                           defined |-> TRUE])
                 ELSE minimalAttrLoop(attrs, parameterIndices, i + 1, acc)

\* minimalAttr is the position of the chosen attribute (0: nullptr).
getMinimalASTDifferentiableAttr(attrs, parameterIndices) ==
    minimalAttrLoop(attrs, parameterIndices, 1,
                    [minimalAttr |-> 0,
                     minimalParameterIndices |-> nullptr,
                     defined |-> TRUE])

\* ------------------------------------------------------------- get-or-create
\* hasSingleResult without the test for index 0.
hasSingleResultCapacityOnly(resultIndices) == ~(getCapacity(resultIndices) # 1)

\* AST differentiability witnesses always have a single result.
hasSingleResult(resultIndices) ==
    ~(getCapacity(resultIndices) # 1 \/ ~contains(resultIndices, 0))

\* minimalConfigOf with the signature of the first attribute.
minimalConfigFirstSignature(attrs, minimal, resultIndices) ==
    AutoDiffConfig(minimal.minimalParameterIndices, resultIndices,
                   attrs[1].derivativeGenericSignature)

minimalConfigOf(attrs, minimal, resultIndices) ==
    AutoDiffConfig(minimal.minimalParameterIndices, resultIndices,
                   attrs[minimal.minimalAttr].derivativeGenericSignature)

\* existingWitnessOf that never finds a witness.
existingWitnessNone(module, original, minimalConfig) == nullptr

\* existingWitnessOf that compares the parameter and result indices only.
existingWitnessByIndices(module, original, minimalConfig) ==
    getExactDifferentiabilityWitness(module, original,
                                     minimalConfig.parameterIndices,
                                     minimalConfig.resultIndices)

existingWitnessOf(module, original, minimalConfig) ==
    lookUpDifferentiabilityWitness(module, original, minimalConfig)

\* assertionHolds with the assertion dropped.
assertionDropped(fs, original) == TRUE

\* The condition of the assertion before a declaration is created.
assertionHolds(fs, original) == fs[original].isExternalDeclaration

\* Steps up to the minimal config: the single-result check, the declaration,
\* the minimal attribute and the config built from it.
resolveMinimalConfig(fs, original, parameterIndices, resultIndices) ==
    IF ~hasSingleResult(resultIndices)
    THEN [stage |-> "gate", outcome |-> "absent", attr |-> 0, config |-> nullptr]
    ELSE IF findAbstractFunctionDecl(fs, original) = nullptr
    THEN [stage |-> "decl", outcome |-> "absent", attr |-> 0, config |-> nullptr]
    ELSE LET attrs == fs[original].attrs
             minimal == getMinimalASTDifferentiableAttr(attrs, parameterIndices)
         IN IF ~minimal.defined
            THEN [stage |-> "resolve", outcome |-> "undefined", attr |-> 0,
                  config |-> nullptr]
            ELSE IF minimal.minimalAttr = 0
            THEN [stage |-> "resolve", outcome |-> "absent", attr |-> 0,
                  config |-> nullptr]
            ELSE [stage |-> "resolve", outcome |-> "resolved",
                  attr |-> minimal.minimalAttr,
                  config |-> minimalConfigOf(attrs, minimal, resultIndices)]

\* lookupOrCreate with the witness registered before the assertion is tested.
lookupOrCreateRegistersFirst(module, fs, original, minimalConfig) ==
    LET existingWitness == existingWitnessOf(module, original, minimalConfig)
        registered == registerWitness(module, original,
                          createDeclaration("PublicExternal", minimalConfig))
    IN IF existingWitness # nullptr
       THEN [stage |-> "lookup", outcome |-> "existing", ret |-> existingWitness,
             module |-> module]
       ELSE IF ~assertionHolds(fs, original)
       THEN [stage |-> "assert", outcome |-> "fatal", ret |-> nullptr,
             module |-> registered]
       ELSE [stage |-> "create", outcome |-> "created",
             ret |-> witnessAt(original, Len(module[original]) + 1),
             module |-> registered]

\* lookupOrCreate with the assertion tested before the existing-witness check.
lookupOrCreateAssertsFirst(module, fs, original, minimalConfig) ==
    LET existingWitness == existingWitnessOf(module, original, minimalConfig)
    IN IF ~assertionHolds(fs, original)
       THEN [stage |-> "assert", outcome |-> "fatal", ret |-> nullptr,
             module |-> module]
       ELSE IF existingWitness # nullptr
       THEN [stage |-> "lookup", outcome |-> "existing", ret |-> existingWitness,
             module |-> module]
       ELSE [stage |-> "create", outcome |-> "created",
             ret |-> witnessAt(original, Len(module[original]) + 1),
             module |-> registerWitness(module, original,
                            createDeclaration("PublicExternal", minimalConfig))]

\* lookupOrCreate that creates the witness with public linkage.
lookupOrCreatePublicLinkage(module, fs, original, minimalConfig) ==
    LET existingWitness == existingWitnessOf(module, original, minimalConfig)
    IN IF existingWitness # nullptr
       THEN [stage |-> "lookup", outcome |-> "existing", ret |-> existingWitness,
             module |-> module]
       ELSE IF ~assertionHolds(fs, original)
       THEN [stage |-> "assert", outcome |-> "fatal", ret |-> nullptr,
             module |-> module]
       ELSE [stage |-> "create", outcome |-> "created",
             ret |-> witnessAt(original, Len(module[original]) + 1),
             module |-> registerWitness(module, original,
                            createDeclaration("Public", minimalConfig))]

\* The existing-witness check, the assertion and the creation.
lookupOrCreate(module, fs, original, minimalConfig) ==
    LET existingWitness == existingWitnessOf(module, original, minimalConfig)
    IN IF existingWitness # nullptr
       THEN [stage |-> "lookup", outcome |-> "existing", ret |-> existingWitness,
             module |-> module]
       ELSE IF ~assertionHolds(fs, original)
       THEN [stage |-> "assert", outcome |-> "fatal", ret |-> nullptr,
             module |-> module]
       ELSE [stage |-> "create", outcome |-> "created",
             ret |-> witnessAt(original, Len(module[original]) + 1),
             module |-> registerWitness(module, original,
                            createDeclaration("PublicExternal", minimalConfig))]

\* createStep that looks the config up again before it creates.
createStepRechecks(module, fs, original, minimalConfig) ==
    IF existingWitnessOf(module, original, minimalConfig) # nullptr
    THEN [outcome |-> "created",
          ret |-> existingWitnessOf(module, original, minimalConfig),
          module |-> module]
    ELSE IF ~assertionHolds(fs, original)
    THEN [outcome |-> "fatal", ret |-> nullptr, module |-> module]
    ELSE [outcome |-> "created",
          ret |-> witnessAt(original, Len(module[original]) + 1),
          module |-> registerWitness(module, original,
                         createDeclaration("PublicExternal", minimalConfig))]

\* What follows a missed existing-witness check: the assertion and the
\* creation, in the registry as it is by then.
createStep(module, fs, original, minimalConfig) ==
    IF ~assertionHolds(fs, original)
    THEN [outcome |-> "fatal", ret |-> nullptr, module |-> module]
    ELSE [outcome |-> "created",
          ret |-> witnessAt(original, Len(module[original]) + 1),
          module |-> registerWitness(module, original,
                         createDeclaration("PublicExternal", minimalConfig))]

\* The call as a function of the module and its arguments: the statement it
\* ends at, how it ends, the witness it returns, the attribute it chose and the
\* registry it leaves.
getOrCreateMinimalASTDifferentiabilityWitness(module, fs, original, parameterIndices, resultIndices) ==
    LET resolved == resolveMinimalConfig(fs, original, parameterIndices,
                                         resultIndices)
    IN IF resolved.outcome # "resolved"
       THEN [stage |-> resolved.stage, outcome |-> resolved.outcome,
             ret |-> nullptr, attr |-> 0, module |-> module]
       ELSE LET done == lookupOrCreate(module, fs, original, resolved.config)
            IN [stage |-> done.stage, outcome |-> done.outcome, ret |-> done.ret,
                attr |-> resolved.attr, module |-> done.module]

\* ------------------------------------------------------------- the module
SeqsUpTo(S, n) == UNION {[1..k -> S] : k \in 0..n}

Min(a, b) == IF a < b THEN a ELSE b

\* Generic signatures are opaque handles compared by equality only, so the
\* attribute tables are taken up to renaming of the handles: the attribute at
\* position i carries one of the first i handles.
signaturesAt(i) == {GenericSignatures[j] : j \in 1..Min(i, Len(GenericSignatures))}

\* The attribute tables of a function of `arity` lowered parameters: the
\* lowered parameter indices all have the function's arity as capacity.
AttrTables(arity) ==
    {t \in SeqsUpTo([parameterIndices : IndexSubsets(arity),
                     derivativeGenericSignature :
                         {GenericSignatures[j] : j \in 1..Len(GenericSignatures)}],
                    MaxAttrs) :
        \A i \in 1..Len(t) : t[i].derivativeGenericSignature \in signaturesAt(i)}

AttrLists == UNION {AttrTables(c) : c \in 1..MaxArity}

\* A function without an AbstractFunctionDecl has no attributes to read.
FunctionDescriptions ==
    [declContext : {"function"}, isExternalDeclaration : BOOLEAN, attrs : AttrLists]
    \cup [declContext : DeclContexts \ {"function"},
          isExternalDeclaration : BOOLEAN, attrs : {<< >>}]

gDescription ==
    [declContext |-> "function", isExternalDeclaration |-> TRUE,
     attrs |-> <<[parameterIndices |-> <<TRUE>>,
                  derivativeGenericSignature |-> "sigA"]>>]

Call(op, original, parameterIndices, resultIndices, stage, outcome, ret, attr, sizeBefore) ==
    [op |-> op, original |-> original, parameterIndices |-> parameterIndices,
     resultIndices |-> resultIndices, stage |-> stage, outcome |-> outcome,
     ret |-> ret, attr |-> attr, sizeBefore |-> sizeBefore]

NoCall == Call("none", "", nullptr, nullptr, "", "", nullptr, 0, 0)

Passes == 1..NumPasses

PassAt(pc, original, config, ret) ==
    [pc |-> pc, original |-> original, config |-> config, ret |-> ret]

IdlePass == PassAt("idle", "", nullptr, nullptr)

Init ==
    /\ \E d \in FunctionDescriptions :
           funcs = [F \in Functions |-> IF F = "f" THEN d ELSE gDescription]
    /\ registry = [F \in Functions |-> << >>]
    /\ last = NoCall
    /\ passes = [t \in Passes |-> IdlePass]

\* No call is in progress and none has aborted the process.
Idle == last.op = "none"

\* The request was computed against a view of the function that has at most
\* the attributes' capacity (NOTE(TF-642)).
withinCapacity(attrs, parameterIndices) ==
    \A i \in 1..Len(attrs) :
        getCapacity(parameterIndices) <= getCapacity(attrs[i].parameterIndices)

\* A pass asks for the minimal witness of `original`.
GetOrCreate(original, parameterIndices, resultIndices) ==
    /\ Idle
    /\ withinCapacity(funcs[original].attrs, parameterIndices)
    /\ LET res == getOrCreateMinimalASTDifferentiabilityWitness(
                      registry, funcs, original, parameterIndices, resultIndices)
       IN /\ registry' = res.module
          /\ last' = Call("getOrCreate", original, parameterIndices, resultIndices,
                          res.stage, res.outcome, res.ret, res.attr,
                          Len(registry[original]))
    /\ UNCHANGED <<funcs, passes>>

\* A pass asks for the witness with exactly these indices.
LookupExact(original, parameterIndices, resultIndices) ==
    /\ Idle
    /\ LET w == getExactDifferentiabilityWitness(registry, original,
                                                 parameterIndices, resultIndices)
       IN last' = Call("lookupExact", original, parameterIndices, resultIndices,
                       "lookup", IF w = nullptr THEN "absent" ELSE "found", w, 0,
                       Len(registry[original]))
    /\ UNCHANGED <<funcs, registry, passes>>

\* No witness has been created lazily yet.
onlyEagerWitnesses(module) ==
    \A F \in Functions : \A i \in 1..Len(module[F]) : ~module[F][i].isDeclaration

\* The front end registers the witness it generated for attribute `i` of
\* `original`; its witnesses are in the registry before the passes create any.
RegisterEager(original, i) ==
    /\ Idle
    /\ onlyEagerWitnesses(registry)
    /\ findAbstractFunctionDecl(funcs, original) # nullptr
    /\ i \in 1..Len(funcs[original].attrs)
    /\ LET attr == funcs[original].attrs[i]
           config == AutoDiffConfig(attr.parameterIndices, <<TRUE>>,
                                    attr.derivativeGenericSignature)
       IN /\ lookUpDifferentiabilityWitness(registry, original, config) = nullptr
          /\ registry' = registerWitness(registry, original,
                             [createDeclaration("Public", config)
                                 EXCEPT !.isDeclaration = FALSE])
          /\ last' = Call("register", original, config.parameterIndices,
                          config.resultIndices, "create", "registered",
                          witnessAt(original, Len(registry[original]) + 1), i,
                          Len(registry[original]))
    /\ UNCHANGED <<funcs, passes>>

\* The caller takes the result; a failed assertion has ended the process.
Return ==
    /\ last.op # "none"
    /\ last.outcome # "fatal"
    /\ last' = NoCall
    /\ UNCHANGED <<funcs, registry, passes>>

ParameterRequests == IndexSubsetsUpTo(MaxArity)
ResultRequests == IndexSubsetsUpTo(MaxResultCapacity)

Next ==
    \/ \E F \in Functions, p \in ParameterRequests, r \in ResultRequests :
           GetOrCreate(F, p, r)
    \/ \E F \in Functions, p \in ParameterRequests, r \in ResultRequests :
           LookupExact(F, p, r)
    \/ \E F \in Functions, i \in 1..MaxAttrs : RegisterEager(F, i)
    \/ Return

Spec == Init /\ [][Next]_vars

\* ------------------------------------------------------------- the resolver alone
\* What a call of extendingCapacity that shrinks the request may lead to: the
\* call fails, or the loop goes on with a value that is not defined and may
\* return any attribute or none.
undefinedOutcomes(attrs) ==
    {[outcome |-> "fatal", attr |-> 0, indices |-> nullptr]}
    \cup {[outcome |-> "returned", attr |-> j,
           indices |-> IF j = 0 THEN nullptr ELSE attrs[j].parameterIndices] :
              j \in 0..Len(attrs)}

\* The resolver runs on the attributes of "f" with a request of any capacity.
\* The call record keeps the attribute it returns and, as `ret`, the index
\* subset it leaves in minimalParameterIndices.
ResolveMinimal(parameterIndices) ==
    /\ Idle
    /\ LET attrs == funcs["f"].attrs
           minimal == getMinimalASTDifferentiableAttr(attrs, parameterIndices)
       IN \E o \in (IF minimal.defined
                    THEN {[outcome |-> "returned", attr |-> minimal.minimalAttr,
                           indices |-> minimal.minimalParameterIndices]}
                    ELSE undefinedOutcomes(attrs)) :
              last' = Call("getMinimalAttr", "f", parameterIndices, nullptr,
                           "resolve", o.outcome, o.indices, o.attr, 0)
    /\ UNCHANGED <<funcs, registry, passes>>

NextResolver ==
    \/ \E p \in ParameterRequests : ResolveMinimal(p)
    \/ Return

SpecResolver == Init /\ [][NextResolver]_vars

\* ------------------------------------------------------------- concurrent passes
\* Several passes call get-or-create on the same module. Each resolves its
\* minimal config from the immutable declarations, then runs the
\* existing-witness check and the creation as one critical section.
noPassAborted == \A t \in Passes : passes[t].pc # "aborted"

BeginCall(t, original, parameterIndices, resultIndices) ==
    /\ noPassAborted
    /\ passes[t].pc = "idle"
    /\ withinCapacity(funcs[original].attrs, parameterIndices)
    /\ LET resolved == resolveMinimalConfig(funcs, original, parameterIndices,
                                            resultIndices)
       IN passes' = [passes EXCEPT ![t] =
                        IF resolved.outcome = "resolved"
                        THEN PassAt("resolved", original, resolved.config, nullptr)
                        ELSE PassAt("returned", original, nullptr, nullptr)]
    /\ UNCHANGED <<funcs, registry, last>>

AtomicLookupOrCreate(t) ==
    /\ noPassAborted
    /\ passes[t].pc = "resolved"
    /\ LET done == lookupOrCreate(registry, funcs, passes[t].original,
                                  passes[t].config)
       IN /\ registry' = done.module
          /\ passes' = [passes EXCEPT ![t] =
                           PassAt(IF done.outcome = "fatal" THEN "aborted"
                                  ELSE "returned",
                                  passes[t].original, passes[t].config, done.ret)]
    /\ UNCHANGED <<funcs, last>>

EndCall(t) ==
    /\ noPassAborted
    /\ passes[t].pc = "returned"
    /\ passes' = [passes EXCEPT ![t] = IdlePass]
    /\ UNCHANGED <<funcs, registry, last>>

NextAtomic ==
    \/ \E t \in Passes, F \in Functions, p \in ParameterRequests,
          r \in ResultRequests : BeginCall(t, F, p, r)
    \/ \E t \in Passes : AtomicLookupOrCreate(t)
    \/ \E t \in Passes : EndCall(t)

SpecAtomic == Init /\ [][NextAtomic]_vars

\* ------------------------------------------------------------- passes without a lock
\* The passes run the existing-witness check and the creation as the two
\* statements they are in the code, with nothing that keeps another pass from
\* running between them.
RaceLookup(t) ==
    /\ noPassAborted
    /\ passes[t].pc = "resolved"
    /\ LET existingWitness == existingWitnessOf(registry, passes[t].original,
                                                passes[t].config)
       IN passes' = [passes EXCEPT ![t] =
                        IF existingWitness # nullptr
                        THEN PassAt("returned", passes[t].original,
                                    passes[t].config, existingWitness)
                        ELSE PassAt("missed", passes[t].original,
                                    passes[t].config, nullptr)]
    /\ UNCHANGED <<funcs, registry, last>>

RaceCreate(t) ==
    /\ noPassAborted
    /\ passes[t].pc = "missed"
    /\ LET done == createStep(registry, funcs, passes[t].original,
                              passes[t].config)
       IN /\ registry' = done.module
          /\ passes' = [passes EXCEPT ![t] =
                           PassAt(IF done.outcome = "fatal" THEN "aborted"
                                  ELSE "created",
                                  passes[t].original, passes[t].config, done.ret)]
    /\ UNCHANGED <<funcs, last>>

RaceEnd(t) ==
    /\ noPassAborted
    /\ passes[t].pc \in {"returned", "created"}
    /\ passes' = [passes EXCEPT ![t] = IdlePass]
    /\ UNCHANGED <<funcs, registry, last>>

NextRace ==
    \/ \E t \in Passes, F \in Functions, p \in ParameterRequests,
          r \in ResultRequests : BeginCall(t, F, p, r)
    \/ \E t \in Passes : RaceLookup(t)
    \/ \E t \in Passes : RaceCreate(t)
    \/ \E t \in Passes : RaceEnd(t)

SpecRace == Init /\ [][NextRace]_vars

\* ------------------------------------------------------------- properties
\* Attribute j of `attrs` covers `request`: every index of the request is an
\* index of the attribute, whose capacity is at least the request's.
covers(attrs, j, request) ==
    /\ Len(request) <= Len(attrs[j].parameterIndices)
    /\ \A i \in 1..Len(request) : request[i] => attrs[j].parameterIndices[i]

covering(attrs, request) == {j \in 1..Len(attrs) : covers(attrs, j, request)}

indexCount(attrs, j) ==
    Cardinality({i \in 1..Len(attrs[j].parameterIndices) :
                     attrs[j].parameterIndices[i]})

singleResult(r) == Len(r) = 1 /\ r[1]

isGetOrCreate == last.op = "getOrCreate"

lastAttrs == funcs[last.original].attrs

\* The witnesses of the called function as they were when the call began.
lastBefore == SubSeq(registry[last.original], 1, last.sizeBefore)

lastWitness == registry[last.ret[1]][last.ret[2]]

\* C1: the registry never holds two witnesses with the same function,
\* parameter indices, result indices and derivative signature.
AtMostOneWitnessPerConfig ==
    \A F \in Functions : \A i, j \in 1..Len(registry[F]) :
        i < j =>
            \/ registry[F][i].parameterIndices # registry[F][j].parameterIndices
            \/ registry[F][i].resultIndices # registry[F][j].resultIndices
            \/ registry[F][i].derivativeGenericSignature
                   # registry[F][j].derivativeGenericSignature

\* A get-or-create call found the witness an earlier call had created, in a
\* registry that holds two witnesses of that function.
SecondCallFindsWitness ==
    /\ isGetOrCreate
    /\ last.outcome = "existing"
    /\ lastWitness.isDeclaration
    /\ Len(registry[last.original]) >= 2

\* C2: when a get-or-create call has returned a witness, the same call made
\* again returns that witness and leaves the registry as it is.
GetOrCreateIsIdempotent ==
    (isGetOrCreate /\ last.ret # nullptr) =>
        LET again == getOrCreateMinimalASTDifferentiabilityWitness(
                         registry, funcs, last.original, last.parameterIndices,
                         last.resultIndices)
        IN /\ again.ret = last.ret
           /\ Len(again.module[last.original]) = Len(registry[last.original])
           /\ again.module = registry

\* A call has just created a witness, so the call made again is the second one.
FirstCallCreated ==
    /\ isGetOrCreate
    /\ last.outcome = "created"
    /\ last.ret = witnessAt(last.original, Len(registry[last.original]))

\* The resolver ran on a request that every attribute can be extended to.
resolvedWithinCapacity ==
    /\ last.op = "getMinimalAttr"
    /\ withinCapacity(funcs["f"].attrs, last.parameterIndices)

\* C3: the attribute the resolver returns covers the request, and no covering
\* attribute of the table has fewer indices.
MinimalCoverIsCorrect ==
    (resolvedWithinCapacity /\ last.attr # 0) =>
        /\ last.outcome = "returned"
        /\ covers(lastAttrs, last.attr, last.parameterIndices)
        /\ \A j \in covering(lastAttrs, last.parameterIndices) :
               indexCount(lastAttrs, j) >= indexCount(lastAttrs, last.attr)

\* The resolver replaced its first candidate by a later attribute with fewer
\* indices, for a request of smaller capacity than the attributes'.
CandidateWasReplaced ==
    /\ resolvedWithinCapacity
    /\ last.attr = 2
    /\ 1 \in covering(lastAttrs, last.parameterIndices)
    /\ Len(last.parameterIndices) < Len(lastAttrs[2].parameterIndices)

\* C4: among the covering attributes with the minimal index count the
\* resolver returns the first in declaration order.
TieBreakFirstWins ==
    (resolvedWithinCapacity /\ last.attr # 0) =>
        \A j \in covering(lastAttrs, last.parameterIndices) :
            j < last.attr => indexCount(lastAttrs, j) > indexCount(lastAttrs, last.attr)

\* Two covering attributes with the same index count and different
\* signatures: the first one was returned.
TieWasBroken ==
    /\ resolvedWithinCapacity
    /\ last.attr = 1
    /\ 2 \in covering(lastAttrs, last.parameterIndices)
    /\ indexCount(lastAttrs, 2) = indexCount(lastAttrs, 1)
    /\ lastAttrs[2].derivativeGenericSignature # lastAttrs[1].derivativeGenericSignature

\* C5: a get-or-create call whose result indices are not {0} of capacity 1
\* returns absent at the first check and leaves the registry as it is.
SingleResultGate ==
    [][(last'.op = "getOrCreate" /\ ~singleResult(last'.resultIndices)) =>
           /\ last'.outcome = "absent"
           /\ last'.ret = nullptr
           /\ last'.stage = "gate"
           /\ registry' = registry]_vars

\* A call was rejected at the gate although an attribute covers the request
\* and the registry holds a witness of the function.
GateRejectedCoveredRequest ==
    /\ isGetOrCreate
    /\ last.stage = "gate"
    /\ covering(lastAttrs, last.parameterIndices) # {}
    /\ Len(registry[last.original]) > 0

\* C6: a returned witness belongs to the requested function and carries the
\* covering attribute's indices and signature and the requested result indices.
ReturnedWitnessHasMinimalConfig ==
    (isGetOrCreate /\ last.ret # nullptr) =>
        /\ last.ret[1] = last.original
        /\ last.ret[2] \in 1..Len(registry[last.original])
        /\ last.attr \in covering(lastAttrs, last.parameterIndices)
        /\ lastWitness.parameterIndices = lastAttrs[last.attr].parameterIndices
        /\ lastWitness.resultIndices = last.resultIndices
        /\ lastWitness.derivativeGenericSignature
               = lastAttrs[last.attr].derivativeGenericSignature

\* The returned witness has more indices than the request had, and the
\* covering attribute is the second of the table.
WitnessWiderThanRequest ==
    /\ isGetOrCreate
    /\ last.ret # nullptr
    /\ last.attr = 2
    /\ getNumIndices(lastWitness.parameterIndices)
           > getNumIndices(last.parameterIndices)
    /\ lastAttrs[1].derivativeGenericSignature
           # lastAttrs[2].derivativeGenericSignature

\* The call got as far as the existing-witness check.
reachedLookup == isGetOrCreate /\ last.stage \in {"lookup", "assert", "create"}

minimalIndices == lastAttrs[last.attr].parameterIndices

minimalSignature == lastAttrs[last.attr].derivativeGenericSignature

\* Positions, in the registry of before the call, of the witnesses with the
\* minimal parameter indices and the requested result indices.
sameIndicesBefore ==
    {i \in 1..Len(lastBefore) :
        /\ lastBefore[i].parameterIndices = minimalIndices
        /\ lastBefore[i].resultIndices = last.resultIndices}

\* Those of them that carry the covering attribute's signature as well.
sameConfigBefore ==
    {i \in sameIndicesBefore :
        lastBefore[i].derivativeGenericSignature = minimalSignature}

nothingCreated == registry[last.original] = lastBefore

\* C7, as the claim states it: a registered witness with the minimal parameter
\* indices and the requested result indices is returned and nothing is
\* created, whatever signature it carries.
ExistingCheckIgnoresSignature ==
    (reachedLookup /\ sameIndicesBefore # {}) =>
        /\ last.outcome = "existing"
        /\ last.ret[2] \in sameIndicesBefore
        /\ nothingCreated

\* C7, amended: the existing-witness check looks the whole minimal config up,
\* signature included. A registered witness with that config is returned and
\* nothing is created; when no registered witness has that config the call
\* goes on to the assertion and the creation, also when a registered witness
\* has the same parameter and result indices under another signature.
ExistingCheckUsesWholeConfig ==
    reachedLookup =>
        /\ sameConfigBefore # {} =>
               /\ last.outcome = "existing"
               /\ last.ret[2] \in sameConfigBefore
               /\ nothingCreated
        /\ sameConfigBefore = {} => last.outcome \in {"created", "fatal"}

\* A witness with the minimal indices and another signature was registered,
\* and the call created a second witness with those indices.
CreatedBesideOtherSignature ==
    /\ reachedLookup
    /\ sameIndicesBefore # {}
    /\ sameConfigBefore = {}
    /\ last.outcome = "created"

isResolve == last.op = "getMinimalAttr"

fAttrs == funcs["f"].attrs

\* The attributes the request can be extended to, in declaration order.
remaining(attrs, request) ==
    {j \in 1..Len(attrs) : Len(attrs[j].parameterIndices) >= Len(request)}

\* The position in `attrs` of the attribute the resolver returns for the
\* remaining attributes alone (0: none).
minimalOfRemaining(attrs, request) ==
    LET keep(a) == Len(a.parameterIndices) >= Len(request)
        alone == getMinimalASTDifferentiableAttr(SelectSeq(attrs, keep), request)
    IN IF alone.minimalAttr = 0 THEN 0
       ELSE CHOOSE j \in remaining(attrs, request) :
                Cardinality({k \in remaining(attrs, request) : k <= j})
                    = alone.minimalAttr

\* C8, as the claim states it: when an attribute has a smaller capacity than
\* the request, the resolver does not fail and returns what it returns for
\* the remaining attributes alone.
SmallerCapacityIsSkipped ==
    (isResolve /\ remaining(fAttrs, last.parameterIndices) # DOMAIN fAttrs) =>
        /\ last.outcome = "returned"
        /\ last.attr = minimalOfRemaining(fAttrs, last.parameterIndices)

\* C10: with the existing-witness check and the creation run as one critical
\* section, no interleaving of the passes leaves a function with two witnesses
\* of one config.
NoDuplicateUnderCriticalSection ==
    \A F \in Functions :
        Cardinality({getConfig(registry[F][i]) : i \in 1..Len(registry[F])})
            = Len(registry[F])

\* One pass has created a witness while another pass, resolved to the same
\* function and config, has not entered its critical section yet.
PassesOverlap ==
    \E t, u \in Passes :
        /\ t # u
        /\ passes[t].pc = "returned"
        /\ passes[t].ret # nullptr
        /\ registry[passes[t].ret[1]][passes[t].ret[2]].isDeclaration
        /\ passes[u].pc = "resolved"
        /\ passes[u].original = passes[t].original
        /\ passes[u].config = passes[t].config

isLookupExact == last.op = "lookupExact"

\* Positions of the witnesses of the looked-up function whose parameter and
\* result indices are the arguments of the lookup.
exactMatches ==
    {i \in 1..Len(registry[last.original]) :
        /\ registry[last.original][i].parameterIndices = last.parameterIndices
        /\ registry[last.original][i].resultIndices = last.resultIndices}

\* C12: an exact lookup returns absent exactly when no witness of the function
\* has the given parameter and result indices; otherwise it returns a witness
\* of that function with those indices, the earliest registered one.
LookupExactReturnsFirstMatch ==
    isLookupExact =>
        /\ last.ret = nullptr <=> exactMatches = {}
        /\ last.ret # nullptr =>
               /\ last.ret[1] = last.original
               /\ last.ret[2] \in exactMatches
               /\ \A i \in exactMatches : last.ret[2] <= i

\* Two witnesses of "f" and a witness of "g" match the lookup on "f"; the
\* first one of "f" was returned.
LookupChoseAmongMatches ==
    /\ isLookupExact
    /\ last.original = "f"
    /\ last.ret = witnessAt("f", 1)
    /\ Cardinality(exactMatches) = 2
    /\ \E i \in 1..Len(registry["g"]) :
           /\ registry["g"][i].parameterIndices = last.parameterIndices
           /\ registry["g"][i].resultIndices = last.resultIndices

\* Every witness of the registry is still there after the step, at its
\* position and with the same fields.
witnessesKept ==
    \A F \in Functions :
        /\ Len(registry[F]) <= Len(registry'[F])
        /\ SubSeq(registry'[F], 1, Len(registry[F])) = registry[F]

\* The step appends exactly one witness, to the list of the called function.
oneWitnessAdded ==
    /\ Len(registry'[last'.original]) = Len(registry[last'.original]) + 1
    /\ \A F \in Functions \ {last'.original} : registry'[F] = registry[F]

\* C13: no step removes or alters a registered witness; an exact lookup and a
\* get-or-create call that returns absent, returns an existing witness or
\* fails leave the registry as it is; a creating call adds one witness to the
\* called function; and the calls change the registry in no other way (the
\* remaining changes are the registrations of the front end).
RegistryFrame ==
    [][/\ witnessesKept
       /\ last'.op = "lookupExact" => registry' = registry
       /\ (last'.op = "getOrCreate" /\ last'.outcome # "created") =>
              registry' = registry
       /\ (last'.op = "getOrCreate" /\ last'.outcome = "created") =>
              oneWitnessAdded
       /\ registry' # registry =>
              \/ last'.op = "getOrCreate" /\ last'.outcome = "created"
              \/ last'.op = "register"]_vars

\* A call created a witness for a function that already had a witness
\* registered by the front end.
CreatedAfterEagerWitness ==
    /\ isGetOrCreate
    /\ last.outcome = "created"
    /\ last.sizeBefore >= 1
    /\ ~registry[last.original][1].isDeclaration
    /\ Len(registry[last.original]) = last.sizeBefore + 1

\* What an exact lookup with the indices of the returned witness returns in
\* the registry the call has left.
lookupOfReturned ==
    getExactDifferentiabilityWitness(registry, last.original,
                                     lastWitness.parameterIndices,
                                     lastWitness.resultIndices)

\* Positions of the witnesses registered before the returned one with its
\* parameter and result indices.
sameIndicesEarlier ==
    {i \in 1..(last.ret[2] - 1) :
        /\ registry[last.original][i].parameterIndices = lastWitness.parameterIndices
        /\ registry[last.original][i].resultIndices = lastWitness.resultIndices}

\* A witness found by an exact lookup stays the answer of that lookup.
exactLookupsStable ==
    \A F \in Functions, p \in ParameterRequests, r \in ResultRequests :
        getExactDifferentiabilityWitness(registry, F, p, r) # nullptr =>
            getExactDifferentiabilityWitness(registry', F, p, r)
                = getExactDifferentiabilityWitness(registry, F, p, r)

\* C14, as the claim states it: the exact lookup with the indices of the
\* witness a get-or-create call returned gives that witness.
LookupReturnsReturnedWitness ==
    (isGetOrCreate /\ last.ret # nullptr) => lookupOfReturned = last.ret

\* C14, amended: the exact lookup with the indices of the witness a
\* get-or-create call returned gives the earliest registered witness of the
\* function with those indices. It is the returned witness exactly when no
\* witness with those indices was registered before it; otherwise it is such
\* an earlier witness, which carries another derivative signature. What an
\* exact lookup has found, it finds in every later state.
LookupReturnsEarliestWithIndices ==
    /\ []((isGetOrCreate /\ last.ret # nullptr) =>
             /\ lookupOfReturned # nullptr
             /\ lookupOfReturned[1] = last.original
             /\ lookupOfReturned = last.ret <=> sameIndicesEarlier = {}
             /\ lookupOfReturned # last.ret =>
                    /\ lookupOfReturned[2] \in sameIndicesEarlier
                    /\ \A i \in sameIndicesEarlier : lookupOfReturned[2] <= i
                    /\ registry[last.original][lookupOfReturned[2]]
                           .derivativeGenericSignature
                           # lastWitness.derivativeGenericSignature)
    /\ [][exactLookupsStable]_vars

\* The call created a witness although the front end had registered one with
\* the same indices under another signature: the exact lookup gives the
\* front end's witness.
LookupGivesEarlierWitness ==
    /\ isGetOrCreate
    /\ last.outcome = "created"
    /\ lookupOfReturned # last.ret
    /\ ~registry[last.original][lookupOfReturned[2]].isDeclaration

\* C15: when the function is a definition and a witness with the minimal
\* config is registered, the call ends at the existing-witness check: it
\* returns that witness, registers nothing and does not fail.
ExistingCheckPrecedesAssertion ==
    (/\ reachedLookup
     /\ ~funcs[last.original].isExternalDeclaration
     /\ sameConfigBefore # {}) =>
        /\ last.stage = "lookup"
        /\ last.outcome = "existing"
        /\ last.ret[1] = last.original
        /\ last.ret[2] \in sameConfigBefore
        /\ nothingCreated

\* The call returned the witness the front end had registered for a
\* definition.
DefinitionWitnessFound ==
    /\ isGetOrCreate
    /\ last.outcome = "existing"
    /\ ~funcs[last.original].isExternalDeclaration
    /\ ~lastWitness.isDeclaration
    /\ lastWitness.linkage = "Public"

\* C16: the witness a call has created is the new last witness of the called
\* function; it is a declaration with public external linkage, carries the
\* minimal config, and the lookup of that config under the function's name in
\* the registry the call has left gives the returned witness.
CreatedWitnessIsExternalDeclaration ==
    (isGetOrCreate /\ last.outcome = "created") =>
        /\ last.ret = witnessAt(last.original, last.sizeBefore + 1)
        /\ Len(registry[last.original]) = last.sizeBefore + 1
        /\ lastWitness.isDeclaration
        /\ lastWitness.linkage = "PublicExternal"
        /\ getConfig(lastWitness)
               = AutoDiffConfig(minimalIndices, last.resultIndices, minimalSignature)
        /\ lookUpDifferentiabilityWitness(registry, last.original,
                                          getConfig(lastWitness)) = last.ret

\* A call created the second declaration of a function, for its second
\* attribute.
SecondDeclarationCreated ==
    /\ isGetOrCreate
    /\ last.outcome = "created"
    /\ last.attr = 2
    /\ last.sizeBefore >= 1
    /\ registry[last.original][1].isDeclaration

extendedRequest(j) ==
    extendingCapacity(last.parameterIndices, getCapacity(fAttrs[j].parameterIndices))

\* Every index of the request is an index of attribute j.
membersCovered(j) ==
    getIndices(last.parameterIndices) \subseteq getIndices(fAttrs[j].parameterIndices)

\* C18: extending the request to the capacity of an attribute gives a subset
\* of that capacity with the same members and the same number of them; the
\* attribute is a superset of the extended request exactly when every index
\* of the request is an index of the attribute; and the resolver returns an
\* attribute exactly when some attribute has every index of the request, the
\* returned one being such an attribute.
ExtensionKeepsMembers ==
    resolvedWithinCapacity =>
        /\ \A j \in 1..Len(fAttrs) :
               /\ getCapacity(extendedRequest(j))
                      = getCapacity(fAttrs[j].parameterIndices)
               /\ getIndices(extendedRequest(j)) = getIndices(last.parameterIndices)
               /\ getNumIndices(extendedRequest(j))
                      = getNumIndices(last.parameterIndices)
               /\ isSupersetOf(fAttrs[j].parameterIndices, extendedRequest(j))
                      <=> membersCovered(j)
        /\ last.attr # 0 <=> \E j \in 1..Len(fAttrs) : membersCovered(j)
        /\ last.attr # 0 => membersCovered(last.attr)

\* The request has a smaller capacity than the attribute, which has an index
\* beyond the request's capacity and was returned; another attribute has such
\* an index and not every index of the request.
RequestExtendedAndCovered ==
    /\ resolvedWithinCapacity
    /\ Len(fAttrs) = 2
    /\ last.attr = 2
    /\ getCapacity(last.parameterIndices) < getCapacity(fAttrs[2].parameterIndices)
    /\ getNumIndices(last.parameterIndices) > 0
    /\ \E i \in getIndices(fAttrs[2].parameterIndices) :
           i >= getCapacity(last.parameterIndices)
    /\ \E i \in getIndices(fAttrs[1].parameterIndices) :
           i >= getCapacity(last.parameterIndices)
    /\ ~membersCovered(1)

\* The other requests that a call on the same function resolves to the
\* attribute the last call chose.
sameCoverRequests ==
    {p \in ParameterRequests \ {last.parameterIndices} :
        /\ withinCapacity(lastAttrs, p)
        /\ getMinimalASTDifferentiableAttr(lastAttrs, p).minimalAttr = last.attr}

\* Positions of the witnesses of the called function with the config of the
\* returned witness.
returnedConfigAt ==
    {i \in 1..Len(registry[last.original]) :
        getConfig(registry[last.original][i]) = getConfig(lastWitness)}

\* C19: when a get-or-create call has returned a witness, a call on the same
\* function with another request (other members, or the same members at
\* another capacity) that resolves to the same attribute returns that witness
\* and leaves the registry as it is, with one witness of that config.
SameCoverSameWitness ==
    (isGetOrCreate /\ last.ret # nullptr) =>
        /\ returnedConfigAt = {last.ret[2]}
        /\ \A p \in sameCoverRequests :
               LET other == getOrCreateMinimalASTDifferentiabilityWitness(
                                registry, funcs, last.original, p,
                                last.resultIndices)
               IN /\ other.attr = last.attr
                  /\ other.ret = last.ret
                  /\ other.module = registry

\* A call created a witness, and both a request with other members and a
\* request with the same members at another capacity resolve to its
\* attribute.
OtherRequestsShareCover ==
    /\ isGetOrCreate
    /\ last.outcome = "created"
    /\ \E p \in sameCoverRequests :
           /\ getCapacity(p) = getCapacity(last.parameterIndices)
           /\ getIndices(p) # getIndices(last.parameterIndices)
    /\ \E p \in sameCoverRequests :
           /\ getCapacity(p) # getCapacity(last.parameterIndices)
           /\ getIndices(p) = getIndices(last.parameterIndices)

\* Positions of the witnesses of pass t's function with pass t's config.
passConfigAt(module, t) ==
    {i \in 1..Len(module[passes[t].original]) :
        getConfig(module[passes[t].original][i]) = passes[t].config}

\* C20: the existing-witness check and the creation are separate steps. A
\* pass that has missed registers a new witness of its config whatever has
\* been registered since its check, and the check itself changes nothing; so
\* when two passes have both missed on one function and config and both have
\* created, they hold different witnesses and the registry holds two
\* witnesses of that function and config.
UnlockedPassesCreateTwice ==
    /\ [][\A t \in Passes :
             /\ (passes[t].pc = "resolved" /\ passes'[t].pc = "missed") =>
                    (registry' = registry /\ passConfigAt(registry, t) = {})
             /\ (passes[t].pc = "missed" /\ passes'[t].pc = "created") =>
                    /\ registry'[passes[t].original]
                           = Append(registry[passes[t].original],
                                    createDeclaration("PublicExternal",
                                                      passes[t].config))
                    /\ passes'[t].ret
                           = witnessAt(passes[t].original,
                                       Len(registry[passes[t].original]) + 1)]_vars
    /\ [](\A t, u \in Passes :
             (/\ t # u
              /\ passes[t].pc = "created"
              /\ passes[u].pc = "created"
              /\ passes[t].original = passes[u].original
              /\ passes[t].config = passes[u].config) =>
                 /\ passes[t].ret # passes[u].ret
                 /\ {passes[t].ret[2], passes[u].ret[2]}
                        \subseteq passConfigAt(registry, t)
                 /\ Cardinality(passConfigAt(registry, t)) >= 2)

\* Two passes have both missed and both created: the registry holds two
\* witnesses of one function and config.
DuplicateAfterRace ==
    \E t, u \in Passes :
        /\ t # u
        /\ passes[t].pc = "created"
        /\ passes[u].pc = "created"
        /\ passes[t].original = passes[u].original
        /\ passes[t].config = passes[u].config
        /\ Cardinality(passConfigAt(registry, t)) = 2

====
